---- MODULE Spec2Model ----
(***************************************************************************)
(* Key-rotating recognition handler (src/unnamed/part_001).                *)
(*                                                                         *)
(* State: the process environment (GEMINI_API_KEYS, KV_REST_API_URL,       *)
(* KV_REST_API_TOKEN), the one cell of the KV store, and for every         *)
(* concurrent invocation of handler its locals (keyIndex, i), the request  *)
(* it has in flight and the response it has sent.  An invocation is        *)
(* suspended only at its awaits: the store read, the upstream fetch and    *)
(* the store write; each action runs the code between two awaits.          *)
(*                                                                         *)
(* Invocation Traced is the one whose history is recorded; Spec runs it    *)
(* alone, again and again.  ConcSpec runs the invocations of Calls         *)
(* concurrently against the same store.                                    *)
(***************************************************************************)
EXTENDS Integers, Sequences, FiniteSets, TLC

\* ------------------------------------------------------------------ bounds
MaxKeys == 3
NumCalls == 2
MaxPayload == 4     \* longest imageBase64, in characters
MaxText == 3        \* longest text of a part, in characters

Calls == 1 .. NumCalls

Traced == 0

AllCalls == {Traced} \cup Calls

\* ------------------------------------------------------- values and helpers
KeyNames == <<"A", "B", "C", "D", "E", "F">>

\* The text of a small non-negative integer, as JSON.stringify writes it.
Digits == <<"0", "1", "2", "3", "4", "5", "6", "7", "8", "9">>

\* JSON.stringify(index) of setCurrentKeyIndex's request body.
JSONstringify(n) == Digits[n + 1]

\* JSON.parse(data.result) of getCurrentKeyIndex.
JSONparse(s) == CHOOSE n \in 0 .. (Len(Digits) - 1) : Digits[n + 1] = s

\* data.result of a store that never had the cell set.
Null == "null"

\* GEMINI_API_KEYS: unset, the empty string, or n comma-separated keys.
KeysEnv ==
  {[defined |-> FALSE, list |-> <<>>], [defined |-> TRUE, list |-> <<>>]}
    \cup {[defined |-> TRUE, list |-> SubSeq(KeyNames, 1, n)] : n \in 1 .. MaxKeys}

\* Upstream statuses other than 200 and 429.
ErrStatuses == {400, 503}

\* What one upstream fetch can produce: it throws, or it yields a response
\* with a status and a body that response.json() can or cannot parse.
Responses ==
  {[threw |-> TRUE, status |-> 0, json |-> FALSE]}
    \cup {[threw |-> FALSE, status |-> s, json |-> j] :
            s \in {200} \cup ErrStatuses, j \in BOOLEAN}
    \cup {[threw |-> FALSE, status |-> 429, json |-> TRUE]}

NoResponse == [threw |-> FALSE, status |-> 0, json |-> FALSE]

NoResult == [status |-> 0, kind |-> "none", key |-> "-"]

\* A JavaScript value that is undefined, or a string (a sequence of
\* one-character strings).
Undefined == [defined |-> FALSE, str |-> <<>>]
Str(s) == [defined |-> TRUE, str |-> s]

\* Strings are sequences of characters: "d" stands for a character of the
\* data-URI header, "Q" for a character of the base64 data.
PayloadChars == {"d", ",", "Q"}
Payloads == UNION {[1 .. n -> PayloadChars] : n \in 0 .. MaxPayload}

\* String.prototype.split(sep): the pieces between the separators.
RECURSIVE split(_, _)
split(s, sep) ==
  IF \A n \in 1 .. Len(s) : s[n] # sep THEN <<s>>
  ELSE LET n == CHOOSE m \in 1 .. Len(s) :
                  s[m] = sep /\ \A l \in 1 .. m - 1 : s[l] # sep
       IN  <<SubSeq(s, 1, n - 1)>> \o split(SubSeq(s, n + 1, Len(s)), sep)

\* list[n] of JavaScript, n counted from 0: undefined past the end.
ElementAt(list, n) == IF n < Len(list) THEN Str(list[n + 1]) ELSE Undefined

\* imageBase64.split(',')[1]
pureBase64Of(s) == ElementAt(split(s, ","), 1)

\* Before the request body is built.
NoData == [built |-> FALSE, data |-> Undefined]

\* The body of a generateContent answer, as far as the single-key function
\* looks into it: candidates[0].content.parts[0].text, where every step
\* may be missing (undefined) and a list may be empty.
TextChars == {" ", "a"}
Texts == UNION {[1 .. n -> TextChars] : n \in 0 .. MaxText}

NoList == [defined |-> FALSE, items |-> <<>>]
List(items) == [defined |-> TRUE, items |-> items]

NoPart == [defined |-> FALSE, text |-> Undefined]
Part(text) == [defined |-> TRUE, text |-> text]
OtherPart == Part(Str(<<"a", "a">>))
Parts == {Part(Undefined)} \cup {Part(Str(t)) : t \in Texts}
PartLists ==
  {NoList, List(<<>>)} \cup {List(<<p>>) : p \in Parts}
    \cup {List(<<p, OtherPart>>) : p \in Parts}

NoContent == [defined |-> FALSE, parts |-> NoList]
Content(parts) == [defined |-> TRUE, parts |-> parts]
Contents == {NoContent} \cup {Content(l) : l \in PartLists}

NoCandidate == [defined |-> FALSE, content |-> NoContent]
Candidate(content) == [defined |-> TRUE, content |-> content]
OtherCandidate == Candidate(Content(List(<<OtherPart>>)))
Candidates == {Candidate(c) : c \in Contents}
CandidateLists ==
  {NoList, List(<<>>)} \cup {List(<<c>>) : c \in Candidates}
    \cup {List(<<c, OtherCandidate>>) : c \in Candidates}

\* What the upstream may answer: 200 with a body, or an error status.
Answers ==
  {[status |-> 200, candidates |-> l] : l \in CandidateLists}
    \cup {[status |-> st, candidates |-> NoList] : st \in {429, 500}}

\* Before the single-key function has an answer, and before it returns.
NoAnswer == [status |-> 0, candidates |-> NoList]
NoReply == [statusCode |-> 0, text |-> <<>>]

\* The fixed texts of the single-key function, each as one character.
Fallback == <<"(nothing recognised)">>
RequestFailed == <<"(request failed)">>

\* String.prototype.trim()
RECURSIVE trimStart(_)
trimStart(s) == IF s # <<>> /\ Head(s) = " " THEN trimStart(Tail(s)) ELSE s

RECURSIVE trimEnd(_)
trimEnd(s) ==
  IF s # <<>> /\ s[Len(s)] = " " THEN trimEnd(SubSeq(s, 1, Len(s) - 1)) ELSE s

\* Variant: only the leading blanks go.
trimLeft(s) == trimStart(s)

trim(s) == trimEnd(trimStart(s))

\* list?.[0]
First(list, none) ==
  IF list.defined /\ list.items # <<>> THEN list.items[1] ELSE none

\* data.candidates?.[0]?.content?.parts?.[0]?.text?.trim()
contentOf(data) ==
  LET candidate == First(data.candidates, NoCandidate)
      content == IF candidate.defined THEN candidate.content ELSE NoContent
      parts == IF content.defined THEN content.parts ELSE NoList
      part == First(parts, NoPart)
      text == IF part.defined THEN part.text ELSE Undefined
  IN  IF text.defined THEN Str(trim(text.str)) ELSE Undefined

\* content || fallback: undefined and the empty string are falsy.
OrElse(v, fallback) == IF v.defined /\ v.str # <<>> THEN v.str ELSE fallback

VARIABLES
  apiKeysString,    \* process.env.GEMINI_API_KEYS
  kvUrl,            \* KV_REST_API_URL is set
  kvToken,          \* KV_REST_API_TOKEN is set
  kv,               \* the store's cell current_gemini_key_index: Null or text
  kvReachable,      \* requests to the store succeed now
  onlySuccess,      \* history: every upstream answer so far was a success
  pc,               \* per call: idle, reading, fetching, writing, done
  keyIndex,         \* per call: let keyIndex
  i,                \* per call: the loop counter
  req,              \* per call: the key of the upstream request in flight
  result,           \* per call: what response.status(..).json(..) sent
  start,            \* per call: the index getCurrentKeyIndex resolved to
  sent,             \* per call: upstream requests sent
  kvReads,          \* per call: store read requests sent
  kvWrites,         \* per call: store write requests sent
  last,             \* Traced: geminiResponse of the latest iteration
  quotaOnly,        \* Traced: it advanced only on a 429 or a thrown fetch
  kvFailed,         \* Traced: one of its store requests failed
  tried,            \* Traced: the pool positions of its attempts, in order
  goodKeys,         \* the keys the upstream accepts (ConvSpec)
  imageBase64,      \* request.body.imageBase64, a string (StripSpec)
  pureBase64,       \* inline_data.data of the request body (StripSpec)
  geminiData,       \* the upstream's answer to the single-key function
  recognized        \* what the single-key function returns (ExtractSpec)

vars ==
  <<apiKeysString, kvUrl, kvToken, kv, kvReachable, onlySuccess, pc, keyIndex,
    i, req, result, start, sent, kvReads, kvWrites, last, quotaOnly, kvFailed,
    tried, goodKeys, imageBase64, pureBase64, geminiData, recognized>>

envVars == <<apiKeysString, kvUrl, kvToken>>

\* What the rotation handler never touches.
otherVars == <<goodKeys, imageBase64, pureBase64, geminiData, recognized>>

\* The state of the rotation handler and of its store.
rotationVars ==
  <<apiKeysString, kvUrl, kvToken, kv, kvReachable, onlySuccess, pc, keyIndex,
    i, req, result, start, sent, kvReads, kvWrites, last, quotaOnly, kvFailed,
    tried>>

\* ------------------------------------------------------------ the key pool
\* apiKeysString.split(',').map(key => key.trim())
apiKeys == apiKeysString.list

totalKeys == Len(apiKeys)

\* apiKeys[keyIndex]: undefined outside the array.
KeyAt(k) == IF k \in 0 .. (totalKeys - 1) THEN apiKeys[k + 1] ELSE "undefined"

\* !apiKeysString || !KV_REST_API_URL
ConfigMissing == ~apiKeysString.defined \/ apiKeysString.list = <<>> \/ ~kvUrl

\* !KV_REST_API_URL || !KV_REST_API_TOKEN
KvUnconfigured == ~kvUrl \/ ~kvToken

\* The index the store reports: data.result ? JSON.parse(data.result) : 0
StoredIndex == IF kv = Null THEN 0 ELSE JSONparse(kv)

\* -------------------------------------------------------------- the loop
\* Variant: an off-by-one loop bound, i <= totalKeys.
LoopConditionInclusive(n) == n <= totalKeys

\* Variant: the loop stops one iteration early.
LoopConditionShort(n) == n < totalKeys - 1

\* i < totalKeys
LoopCondition(n) == n < totalKeys

\* Variant: the index is incremented without wrapping around.
NextIndexNoWrap(k) == k + 1

\* Variant: the index is not advanced.
NextIndexStay(k) == k

\* (keyIndex + 1) % totalKeys
NextIndex(k) == (k + 1) % totalKeys

\* Variant: a success is taken for a quota answer.
ClassifyOkAsQuota(r) ==
  IF r.threw THEN "advance"
  ELSE IF r.status = 200 \/ r.status = 429 THEN "advance"
  ELSE IF r.json THEN "failfast"
  ELSE "advance"

\* Variant: a 429 whose body parses is passed on like any other error.
ClassifyQuotaAsError(r) ==
  IF r.threw THEN "advance"
  ELSE IF r.status = 200 THEN (IF r.json THEN "success" ELSE "advance")
  ELSE IF r.json THEN "failfast"
  ELSE "advance"

\* How the loop body treats what the fetch produced.
\*   "success"  : ok and json() parsed, return 200 with the data
\*   "failfast" : an error status other than 429 whose body parsed
\*   "advance"  : 429, or anything thrown inside the try block, which
\*                includes json() rejecting an unparseable body
Classify(r) ==
  IF r.threw THEN "advance"
  ELSE IF r.status = 200 THEN (IF r.json THEN "success" ELSE "advance")
  ELSE IF r.status = 429 THEN "advance"
  ELSE IF r.json THEN "failfast"
  ELSE "advance"

\* Variant: the catch block of getCurrentKeyIndex yields -1, not 0.
ReadIndexMinusOne ==
  IF KvUnconfigured THEN 0
  ELSE IF kvReachable THEN StoredIndex
  ELSE -1

\* The value getCurrentKeyIndex resolves to.
ReadIndex ==
  IF KvUnconfigured THEN 0
  ELSE IF kvReachable THEN StoredIndex
  ELSE 0

\* Variant: the new index is never sent to the store.
WriteIndexSkipped(k) == kv

\* The cell after setCurrentKeyIndex(k) has settled.
WriteIndex(k) ==
  IF KvUnconfigured THEN kv
  ELSE IF kvReachable THEN JSONstringify(k)
  ELSE kv

\* The responses the handler sends.
MethodNotAllowed == [status |-> 405, kind |-> "methodNotAllowed", key |-> "-"]
NoImage == [status |-> 400, kind |-> "noImage", key |-> "-"]
ConfigurationError == [status |-> 500, kind |-> "configuration", key |-> "-"]
AllKeysExhausted == [status |-> 429, kind |-> "allKeysExhausted", key |-> "-"]
Payload(key) == [status |-> 200, kind |-> "payload", key |-> key]
UpstreamError(status, key) == [status |-> status, kind |-> "upstreamError", key |-> key]

Active(c) == pc[c] \in {"reading", "fetching", "writing"}

\* Variant: every iteration takes its index from the store again.
AttemptIndexReread(c) == IF kv' = Null THEN 0 ELSE JSONparse(kv')

\* The index an iteration after the first picks its key with: the local
\* keyIndex of `apiKeys[keyIndex]`, never the store.
AttemptIndex(c) == keyIndex[c]

\* The locals of an invocation are gone when it returns; what it did stays
\* on record for Traced only.
Local(returns, v) == IF returns THEN 0 ELSE v
Record(c, returns, v) == IF returns /\ c # Traced THEN 0 ELSE v
Trace(h, c, v) == IF c = Traced THEN [h EXCEPT ![c] = v] ELSE h

\* ---------------------------------------------------------------- Init
InitRotation ==
  /\ apiKeysString \in KeysEnv
  /\ kvUrl \in BOOLEAN
  /\ kvToken \in BOOLEAN
  /\ kv \in IF ConfigMissing \/ KvUnconfigured THEN {Null}
           ELSE {Null} \cup {JSONstringify(n) : n \in 0 .. (totalKeys - 1)}
  /\ kvReachable \in IF ConfigMissing \/ KvUnconfigured THEN {TRUE} ELSE BOOLEAN
  /\ onlySuccess = TRUE
  /\ pc = [c \in AllCalls |-> "idle"]
  /\ keyIndex = [c \in AllCalls |-> 0]
  /\ i = [c \in AllCalls |-> 0]
  /\ req = [c \in AllCalls |-> "-"]
  /\ result = [c \in AllCalls |-> NoResult]
  /\ start = [c \in AllCalls |-> 0]
  /\ sent = [c \in AllCalls |-> 0]
  /\ kvReads = [c \in AllCalls |-> 0]
  /\ kvWrites = [c \in AllCalls |-> 0]
  /\ last = [c \in AllCalls |-> NoResponse]
  /\ quotaOnly = [c \in AllCalls |-> TRUE]
  /\ kvFailed = [c \in AllCalls |-> FALSE]
  /\ tried = [c \in AllCalls |-> <<>>]

InitOther ==
  /\ goodKeys = {}
  /\ imageBase64 = <<>>
  /\ pureBase64 = NoData
  /\ geminiData = NoAnswer
  /\ recognized = NoReply

Init == InitRotation /\ InitOther

\* -------------------------------------------------------------- actions
\* handler, from its entry to `await getCurrentKeyIndex()`.
handlerEntry(c, method, hasImage) ==
  /\ pc[c] \in {"idle", "done"}
  /\ keyIndex' = [keyIndex EXCEPT ![c] = 0]
  /\ i' = [i EXCEPT ![c] = 0]
  /\ req' = [req EXCEPT ![c] = "-"]
  /\ start' = [start EXCEPT ![c] = 0]
  /\ sent' = [sent EXCEPT ![c] = 0]
  /\ kvReads' = [kvReads EXCEPT ![c] = 0]
  /\ kvWrites' = [kvWrites EXCEPT ![c] = 0]
  /\ last' = [last EXCEPT ![c] = NoResponse]
  /\ quotaOnly' = [quotaOnly EXCEPT ![c] = TRUE]
  /\ kvFailed' = [kvFailed EXCEPT ![c] = FALSE]
  /\ tried' = [tried EXCEPT ![c] = <<>>]
  /\ IF method # "POST"
       THEN /\ pc' = [pc EXCEPT ![c] = "done"]
            /\ result' = [result EXCEPT ![c] = MethodNotAllowed]
     ELSE IF ~hasImage
       THEN /\ pc' = [pc EXCEPT ![c] = "done"]
            /\ result' = [result EXCEPT ![c] = NoImage]
     ELSE IF ConfigMissing
       THEN /\ pc' = [pc EXCEPT ![c] = "done"]
            /\ result' = [result EXCEPT ![c] = ConfigurationError]
     ELSE /\ pc' = [pc EXCEPT ![c] = "reading"]
          /\ result' = [result EXCEPT ![c] = NoResult]
  /\ UNCHANGED <<envVars, kv, kvReachable, onlySuccess, otherVars>>

\* getCurrentKeyIndex settles; the loop starts and sends the first attempt
\* (or, with nothing to try, falls through to the 429 of step 6).
getCurrentKeyIndex(c) ==
  LET k == ReadIndex
      returns == ~LoopCondition(0)
  IN
  /\ pc[c] = "reading"
  /\ pc' = [pc EXCEPT ![c] = IF returns THEN "done" ELSE "fetching"]
  /\ result' = [result EXCEPT ![c] = IF returns THEN AllKeysExhausted ELSE @]
  /\ keyIndex' = [keyIndex EXCEPT ![c] = Local(returns, k)]
  /\ req' = [req EXCEPT ![c] = IF returns THEN "-" ELSE KeyAt(k)]
  /\ start' = [start EXCEPT ![c] = Record(c, returns, k)]
  /\ sent' = [sent EXCEPT ![c] = Record(c, returns, IF returns THEN @ ELSE @ + 1)]
  /\ kvReads' = [kvReads EXCEPT ![c] =
                   Record(c, returns, IF KvUnconfigured THEN @ ELSE @ + 1)]
  /\ kvFailed' = Trace(kvFailed, c, kvFailed[c] \/ (~KvUnconfigured /\ ~kvReachable))
  /\ tried' = Trace(tried, c, IF returns THEN <<>> ELSE <<k>>)
  /\ UNCHANGED <<envVars, kv, kvReachable, onlySuccess, i, kvWrites, last, quotaOnly,
                 otherVars>>

\* The upstream fetch of one attempt settles with r; the loop body runs up
\* to its return or to `await setCurrentKeyIndex(keyIndex)`.
handlerAttempt(c, r) ==
  LET returns == Classify(r) # "advance" IN
  /\ pc[c] = "fetching"
  /\ pc' = [pc EXCEPT ![c] = IF returns THEN "done" ELSE "writing"]
  /\ result' = [result EXCEPT ![c] =
                  IF Classify(r) = "success" THEN Payload(req[c])
                  ELSE IF Classify(r) = "failfast" THEN UpstreamError(r.status, req[c])
                  ELSE @]
  /\ keyIndex' = [keyIndex EXCEPT ![c] = Local(returns, NextIndex(@))]
  /\ i' = [i EXCEPT ![c] = Local(returns, @)]
  /\ req' = [req EXCEPT ![c] = "-"]
  /\ start' = [start EXCEPT ![c] = Record(c, returns, @)]
  /\ sent' = [sent EXCEPT ![c] = Record(c, returns, @)]
  /\ kvReads' = [kvReads EXCEPT ![c] = Record(c, returns, @)]
  /\ kvWrites' = [kvWrites EXCEPT ![c] = Record(c, returns, @)]
  /\ last' = Trace(last, c, r)
  /\ quotaOnly' = Trace(quotaOnly, c,
                        quotaOnly[c] /\ (returns \/ r.threw \/ r.status = 429))
  /\ onlySuccess' = (onlySuccess /\ ~r.threw /\ r.status = 200 /\ r.json)
  /\ UNCHANGED <<envVars, kv, kvReachable, kvFailed, tried, otherVars>>

\* setCurrentKeyIndex settles; the loop goes to its next iteration: the
\* next attempt, or past the end of the loop to the 429 of step 6.
setCurrentKeyIndex(c) ==
  LET returns == ~LoopCondition(i[c] + 1) IN
  /\ pc[c] = "writing"
  /\ kv' = WriteIndex(keyIndex[c])
  /\ pc' = [pc EXCEPT ![c] = IF returns THEN "done" ELSE "fetching"]
  /\ result' = [result EXCEPT ![c] = IF returns THEN AllKeysExhausted ELSE @]
  /\ keyIndex' = [keyIndex EXCEPT ![c] = Local(returns, @)]
  /\ i' = [i EXCEPT ![c] = Local(returns, @ + 1)]
  /\ req' = [req EXCEPT ![c] = IF returns THEN "-" ELSE KeyAt(AttemptIndex(c))]
  /\ start' = [start EXCEPT ![c] = Record(c, returns, @)]
  /\ sent' = [sent EXCEPT ![c] = Record(c, returns, IF returns THEN @ ELSE @ + 1)]
  /\ kvReads' = [kvReads EXCEPT ![c] = Record(c, returns, @)]
  /\ kvWrites' = [kvWrites EXCEPT ![c] =
                    Record(c, returns, IF KvUnconfigured THEN @ ELSE @ + 1)]
  /\ last' = IF returns THEN last ELSE Trace(last, c, NoResponse)
  /\ kvFailed' = Trace(kvFailed, c, kvFailed[c] \/ (~KvUnconfigured /\ ~kvReachable))
  /\ tried' = IF returns THEN tried ELSE Trace(tried, c, Append(tried[c], AttemptIndex(c)))
  /\ UNCHANGED <<envVars, kvReachable, onlySuccess, quotaOnly, otherVars>>

\* The store becomes unreachable, or reachable again (to a process that is
\* configured to talk to it).
kvAvailability ==
  /\ ~KvUnconfigured
  /\ kvReachable' = ~kvReachable
  /\ UNCHANGED <<envVars, kv, onlySuccess, pc, keyIndex, i, req, result, start,
                 sent, kvReads, kvWrites, last, quotaOnly, kvFailed, tried,
                 otherVars>>

\* The request body of a request that passed the checks: its inline_data
\* carries pureBase64, and JSON.stringify leaves an undefined field out.
buildRequestBody ==
  /\ ~ConfigMissing
  /\ imageBase64 # <<>>
  /\ ~pureBase64.built
  /\ pureBase64' = [built |-> TRUE, data |-> pureBase64Of(imageBase64)]
  /\ UNCHANGED <<rotationVars, goodKeys, imageBase64, geminiData, recognized>>

\* The single-key function from the upstream's answer on: an error status
\* is passed on with a message, a 200 returns the text or the fallback.
singleKeyHandler ==
  /\ geminiData.status # 0
  /\ recognized = NoReply
  /\ recognized' =
       IF geminiData.status # 200
       THEN [statusCode |-> geminiData.status, text |-> RequestFailed]
       ELSE [statusCode |-> 200, text |-> OrElse(contentOf(geminiData), Fallback)]
  /\ UNCHANGED <<rotationVars, goodKeys, imageBase64, pureBase64, geminiData>>

\* One invocation at a time.
Next ==
  \/ \E method \in {"POST", "GET"}, hasImage \in BOOLEAN :
       handlerEntry(Traced, method, hasImage)
  \/ getCurrentKeyIndex(Traced)
  \/ \E r \in Responses : handlerAttempt(Traced, r)
  \/ setCurrentKeyIndex(Traced)
  \/ kvAvailability

Spec == Init /\ [][Next]_vars

\* Every request the invocation awaits is eventually answered or fails.
FairSpec ==
  /\ Spec
  /\ WF_vars(getCurrentKeyIndex(Traced))
  /\ WF_vars(\E r \in Responses : handlerAttempt(Traced, r))
  /\ WF_vars(setCurrentKeyIndex(Traced))

\* Concurrent invocations sharing the store, which is reachable throughout
\* or unreachable throughout.
ConcNext ==
  \/ \E c \in Calls, method \in {"POST", "GET"}, hasImage \in BOOLEAN :
       handlerEntry(c, method, hasImage)
  \/ \E c \in Calls : getCurrentKeyIndex(c)
  \/ \E c \in Calls, r \in Responses : handlerAttempt(c, r)
  \/ \E c \in Calls : setCurrentKeyIndex(c)

ConcSpec == Init /\ [][ConcNext]_vars

\* Two copies of one call, side by side: Traced, whose store writes all
\* land, and Twin, whose store writes are all lost. Twin starts from the
\* index Traced read and is given, attempt by attempt, the response Traced
\* was given. In each round Twin's write goes first, so that the cell still
\* holds what it held before Traced's write lands.
Twin == CHOOSE c \in Calls : \A d \in Calls : c <= d

TwinEntry ==
  \/ /\ pc[Twin] \in {"idle", "done"}
     /\ handlerEntry(Traced, "POST", TRUE)
  \/ /\ pc[Traced] = "reading"
     /\ handlerEntry(Twin, "POST", TRUE)

TwinRead ==
  \/ /\ pc[Twin] = "reading"
     /\ getCurrentKeyIndex(Traced)
  \/ /\ pc[Traced] = "fetching"
     /\ sent[Traced] = 1
     /\ ReadIndex = start[Traced]
     /\ getCurrentKeyIndex(Twin)

TwinAttempt ==
  \/ /\ pc[Twin] = "fetching"
     /\ sent[Twin] = sent[Traced]
     /\ \E r \in Responses : handlerAttempt(Traced, r)
  \/ /\ pc[Traced] \in {"writing", "done"}
     /\ sent[Twin] = sent[Traced]
     /\ handlerAttempt(Twin, last[Traced])

TwinWrite ==
  \/ /\ pc[Traced] = "writing"
     /\ KvUnconfigured \/ ~kvReachable
     /\ setCurrentKeyIndex(Twin)
  \/ /\ pc[Twin] \notin {"fetching", "writing"} \/ sent[Twin] = sent[Traced] + 1
     /\ kvReachable
     /\ setCurrentKeyIndex(Traced)

TwinNext ==
  \/ TwinEntry
  \/ TwinRead
  \/ TwinAttempt
  \/ TwinWrite
  \/ kvAvailability

TwinSpec == Init /\ [][TwinNext]_vars

\* An upstream with settled keys: a key in goodKeys is answered with a
\* success every time it is tried, any other key with a 429 or with a
\* failed fetch.
AnswersTo(key) ==
  IF key \in goodKeys
  THEN {[threw |-> FALSE, status |-> 200, json |-> TRUE]}
  ELSE {r \in Responses : r.threw \/ r.status = 429}

ConvInit ==
  /\ InitRotation
  /\ ~ConfigMissing
  /\ goodKeys \in (SUBSET {apiKeys[n] : n \in 1 .. totalKeys}) \ {{}}
  /\ imageBase64 = <<>>
  /\ pureBase64 = NoData
  /\ geminiData = NoAnswer
  /\ recognized = NoReply

ConvAttempt == \E r \in AnswersTo(req[Traced]) : handlerAttempt(Traced, r)

ConvNext ==
  \/ \E method \in {"POST", "GET"}, hasImage \in BOOLEAN :
       handlerEntry(Traced, method, hasImage)
  \/ getCurrentKeyIndex(Traced)
  \/ ConvAttempt
  \/ setCurrentKeyIndex(Traced)
  \/ kvAvailability

\* Every request the invocation awaits is eventually answered or fails.
ConvSpec ==
  /\ ConvInit
  /\ [][ConvNext]_vars
  /\ WF_vars(getCurrentKeyIndex(Traced))
  /\ WF_vars(ConvAttempt)
  /\ WF_vars(setCurrentKeyIndex(Traced))

\* The request body, for every payload a client may post.
StripInit ==
  /\ InitRotation
  /\ ~ConfigMissing
  /\ ~KvUnconfigured
  /\ kvReachable
  /\ goodKeys = {}
  /\ imageBase64 \in Payloads
  /\ pureBase64 = NoData
  /\ geminiData = NoAnswer
  /\ recognized = NoReply

StripNext == buildRequestBody

StripSpec == StripInit /\ [][StripNext]_vars

\* The single-key function, for every answer of the upstream. The rotation
\* handler is not deployed beside it.
ExtractInit ==
  /\ InitRotation
  /\ ~apiKeysString.defined
  /\ ~kvUrl
  /\ ~kvToken
  /\ goodKeys = {}
  /\ imageBase64 = <<>>
  /\ pureBase64 = NoData
  /\ geminiData \in Answers
  /\ recognized = NoReply

ExtractNext == singleKeyHandler

ExtractSpec == ExtractInit /\ [][ExtractNext]_vars

\* ======================================================================
\* Properties
\* ======================================================================

\* C1. Whatever the pool size, the starting index and the upstream
\* outcomes, one call sends at most totalKeys upstream requests, and once
\* started it ends with a response sent.
C1_BoundedAttempts ==
  /\ [](/\ sent[Traced] <= totalKeys
        /\ (pc[Traced] = "done" => result[Traced] # NoResult))
  /\ (Active(Traced) ~> pc[Traced] = "done")

C1_Witness ==
  /\ totalKeys = 3
  /\ pc[Traced] = "done"
  /\ result[Traced] = AllKeysExhausted
  /\ sent[Traced] = 3

\* C2. An upstream answer with an error status other than 429, whatever
\* its body, makes the call return at once with that status and the
\* upstream's body, send no further attempt and leave the stored index as
\* it was.  (Stated for a call whose store is configured and has answered.)
C2_FailFastOnAnyBody ==
  [][(/\ ~KvUnconfigured
      /\ ~kvFailed[Traced]
      /\ pc[Traced] = "fetching"
      /\ pc'[Traced] # "fetching"
      /\ ~last'[Traced].threw
      /\ last'[Traced].status \in ErrStatuses)
       => (/\ pc'[Traced] = "done"
           /\ result'[Traced] = UpstreamError(last'[Traced].status, req[Traced])
           /\ sent'[Traced] = sent[Traced]
           /\ kv' = kv)]_vars

\* C3. A call returns the all-keys-exhausted 429 exactly when all of its
\* totalKeys attempts ended in a 429 or a thrown fetch: those outcomes give
\* that result after exactly totalKeys attempts, and nothing else gives it.
\* (Stated for a call whose store is configured and has answered, and whose
\* latest upstream answer was not a success status.)
C3_ExhaustedIffAllRetryable ==
  (/\ pc[Traced] = "done"
   /\ ~KvUnconfigured
   /\ ~kvFailed[Traced]
   /\ last[Traced].status # 200) =>
    LET allRetryable ==
          /\ totalKeys >= 1
          /\ sent[Traced] = totalKeys
          /\ quotaOnly[Traced]
          /\ (last[Traced].threw \/ last[Traced].status = 429)
    IN  /\ allRetryable => result[Traced] = AllKeysExhausted
        /\ result[Traced] = AllKeysExhausted => allRetryable

\* C4. A call running alone against a reachable store whose first k
\* attempts end in a 429 or a thrown fetch and whose attempt k+1 succeeds
\* returns the payload of the key at (start + k) mod totalKeys, has written
\* the store k times, and leaves (start + k) mod totalKeys stored.
C4_SuccessAfterRetries ==
  (/\ pc[Traced] = "done"
   /\ result[Traced].kind = "payload"
   /\ quotaOnly[Traced]
   /\ ~KvUnconfigured
   /\ ~kvFailed[Traced])
    => LET k == sent[Traced] - 1
           p == (start[Traced] + k) % totalKeys
       IN  /\ k \in 0 .. (totalKeys - 1)
           /\ start[Traced] \in 0 .. (totalKeys - 1)
           /\ result[Traced] = Payload(apiKeys[p + 1])
           /\ kvWrites[Traced] = k
           /\ StoredIndex = p

C4_Witness ==
  /\ apiKeys = <<"A", "B", "C">>
  /\ pc[Traced] = "done"
  /\ start[Traced] = 0
  /\ sent[Traced] = 2
  /\ quotaOnly[Traced]
  /\ ~KvUnconfigured
  /\ ~kvFailed[Traced]
  /\ result[Traced] = Payload("B")
  /\ kv = "1"

\* C5. While the upstream has answered every request with a success, no
\* step of any call, sequential or concurrent, changes the stored index or
\* starts a store write.
C5_NoWriteWhenAlwaysSuccess ==
  [][onlySuccess' => (kv' = kv /\ \A c \in Calls : pc'[c] # "writing")]_vars

C5_Witness ==
  /\ onlySuccess
  /\ kv = "1"
  /\ pc[1] = "done"
  /\ result[1] = Payload("B")
  /\ pc[2] = "fetching"
  /\ req[2] = "B"

\* What the Traced call does with an answer in R and with the store write
\* that follows it: the index becomes (position + 1) mod totalKeys, nothing
\* is returned and nothing is sent until setCurrentKeyIndex has settled; the
\* store (when configured and reachable) then holds exactly that index, and
\* only then the next attempt, if one remains, is sent with the key at it.
AdvancesOn(R) ==
  /\ (pc[Traced] = "fetching" /\ pc'[Traced] # "fetching" /\ last'[Traced] \in R)
       => /\ req[Traced] = KeyAt(keyIndex[Traced])
          /\ keyIndex'[Traced] = (keyIndex[Traced] + 1) % totalKeys
          /\ pc'[Traced] = "writing"
          /\ result'[Traced] = NoResult
          /\ sent'[Traced] = sent[Traced]
          /\ kv' = kv
  /\ (pc[Traced] = "writing" /\ pc'[Traced] # "writing" /\ last[Traced] \in R)
       => /\ (~KvUnconfigured /\ kvReachable) => kv' = Digits[keyIndex[Traced] + 1]
          /\ ~KvUnconfigured => kvWrites'[Traced] = kvWrites[Traced] + 1
          /\ IF i[Traced] + 1 < totalKeys
               THEN /\ pc'[Traced] = "fetching"
                    /\ sent'[Traced] = sent[Traced] + 1
                    /\ req'[Traced] = KeyAt(keyIndex[Traced])
                    /\ result'[Traced] = NoResult
               ELSE /\ pc'[Traced] = "done"
                    /\ sent'[Traced] = sent[Traced]
                    /\ result'[Traced] = AllKeysExhausted

\* C6. A 429 answer to the attempt made with the key at position p sets the
\* call's index to (p + 1) mod totalKeys, writes exactly that value to the
\* store, sends the next attempt only after that write has settled, and
\* returns nothing to the caller for the 429 itself.
C6_QuotaAdvancesAndPersists ==
  [][AdvancesOn({r \in Responses : ~r.threw /\ r.status = 429})]_vars

C6_Witness ==
  /\ totalKeys = 3
  /\ pc[Traced] = "done"
  /\ result[Traced] = AllKeysExhausted
  /\ ~last[Traced].threw
  /\ last[Traced].status = 429
  /\ start[Traced] = 1
  /\ kvWrites[Traced] = 3
  /\ ~kvFailed[Traced]
  /\ kv = "1"

\* C7. A fetch that throws is treated exactly like a 429: the index is
\* advanced to (p + 1) mod totalKeys and persisted, the loop goes on, and
\* nothing is returned to the caller for that failure.
C7_TransportFailureAdvances ==
  [][AdvancesOn({r \in Responses : r.threw})]_vars

C7_Witness ==
  /\ totalKeys = 3
  /\ pc[Traced] = "done"
  /\ result[Traced] = AllKeysExhausted
  /\ last[Traced].threw
  /\ start[Traced] = 2
  /\ kvWrites[Traced] = 3
  /\ ~kvFailed[Traced]
  /\ kv = "2"

\* C8 as stated: with a pool of one key, a 429 is followed by a second
\* upstream attempt within the same call.  (Stated for a call whose store is
\* configured and has answered.)
C8_SecondAttemptWithOnlyKey ==
  (/\ totalKeys = 1
   /\ ~KvUnconfigured
   /\ ~kvFailed[Traced]
   /\ pc[Traced] = "done"
   /\ ~last[Traced].threw
   /\ last[Traced].status = 429)
    => sent[Traced] >= 2

\* C8, amended. With a pool of one key, a 429 is followed by no second
\* attempt: the index is advanced to (0 + 1) mod 1 = 0 and the call returns
\* all-keys-exhausted after that single attempt.
C8_SingleAttemptWithOnlyKey ==
  (/\ totalKeys = 1
   /\ ~last[Traced].threw
   /\ last[Traced].status = 429)
    => /\ sent[Traced] = 1
       /\ keyIndex[Traced] = 0
       /\ pc[Traced] \in {"writing", "done"}
       /\ pc[Traced] = "done" => result[Traced] = AllKeysExhausted

C8_Witness ==
  /\ totalKeys = 1
  /\ pc[Traced] = "done"
  /\ ~last[Traced].threw
  /\ last[Traced].status = 429
  /\ sent[Traced] = 1
  /\ result[Traced] = AllKeysExhausted

\* C9. With the store unreachable, the read yields 0 and the first attempt
\* uses the key at position 0; a write changes nothing and raises nothing,
\* the loop going on as it would have; and the call ends with what the
\* upstream answers dictate.
C9_UnreachableStore ==
  [][/\ (pc[Traced] = "reading" /\ pc'[Traced] # "reading" /\ ~kvReachable)
          => /\ start'[Traced] = 0
             /\ pc'[Traced] = "fetching"
             /\ req'[Traced] = apiKeys[1]
             /\ sent'[Traced] = 1
             /\ result'[Traced] = NoResult
             /\ kv' = kv
     /\ (pc[Traced] = "writing" /\ pc'[Traced] # "writing" /\ ~kvReachable)
          => /\ kv' = kv
             /\ IF i[Traced] + 1 < totalKeys
                  THEN /\ pc'[Traced] = "fetching"
                       /\ req'[Traced] = KeyAt(keyIndex[Traced])
                       /\ result'[Traced] = NoResult
                  ELSE /\ pc'[Traced] = "done"
                       /\ result'[Traced] = AllKeysExhausted
     /\ (pc[Traced] = "fetching" /\ pc'[Traced] # "fetching" /\ kvFailed[Traced]
           /\ ~last'[Traced].threw /\ last'[Traced].json)
          => IF last'[Traced].status = 200
               THEN pc'[Traced] = "done" /\ result'[Traced] = Payload(req[Traced])
             ELSE IF last'[Traced].status = 429
               THEN pc'[Traced] = "writing" /\ result'[Traced] = NoResult
             ELSE /\ pc'[Traced] = "done"
                  /\ result'[Traced] = UpstreamError(last'[Traced].status, req[Traced])
    ]_vars

C9_Witness ==
  /\ apiKeys = <<"A", "B", "C">>
  /\ kv = "2"
  /\ ~kvReachable
  /\ kvFailed[Traced]
  /\ pc[Traced] = "done"
  /\ start[Traced] = 0
  /\ sent[Traced] = 2
  /\ kvWrites[Traced] = 1
  /\ result[Traced] = Payload("B")

\* C10. With the credential list missing or empty, or the store's URL or
\* its token missing, a well-formed request is answered 500 at once: no
\* upstream request is sent and the store is neither read nor written.
C10_ConfigurationFailure ==
  (/\ \/ ~apiKeysString.defined
      \/ apiKeysString.list = <<>>
      \/ ~kvUrl
      \/ ~kvToken
   /\ pc[Traced] # "idle"
   /\ result[Traced] \notin {MethodNotAllowed, NoImage})
    => /\ pc[Traced] = "done"
       /\ result[Traced] = ConfigurationError
       /\ sent[Traced] = 0
       /\ kvReads[Traced] = 0
       /\ kvWrites[Traced] = 0

\* C11. A call with a well-formed request delivers one result and only
\* one: nothing is delivered while it runs, what it delivers stays until
\* the next call begins, and it is the success payload of a 200, the
\* configuration failure, the status and body of an upstream error that
\* is not a 429, or the aggregate all-keys-exhausted answer. A thrown
\* fetch or one key's 429 is never passed on as the result.
C11_Delivered ==
  /\ Active(Traced) => result[Traced] = NoResult
  /\ (pc[Traced] = "done" /\ result[Traced] \notin {MethodNotAllowed, NoImage})
       => \/ result[Traced] = ConfigurationError
          \/ result[Traced] = AllKeysExhausted
          \/ /\ result[Traced].kind = "payload"
             /\ result[Traced].status = 200
             /\ last[Traced] = [threw |-> FALSE, status |-> 200, json |-> TRUE]
          \/ /\ result[Traced].kind = "upstreamError"
             /\ result[Traced].status = last[Traced].status
             /\ result[Traced].status \notin {200, 429}
             /\ ~last[Traced].threw
             /\ last[Traced].json

C11_ExactlyOneResult ==
  /\ []C11_Delivered
  /\ [][/\ pc'[Traced] = "done" => result'[Traced] # NoResult
        /\ (result[Traced] # NoResult /\ result'[Traced] # result[Traced])
             => (pc[Traced] = "done" /\ pc'[Traced] # "idle")
       ]_vars

\* An error of the second key is passed on after the first key's failure
\* was absorbed.
C11_Witness ==
  /\ apiKeys = <<"A", "B", "C">>
  /\ pc[Traced] = "done"
  /\ start[Traced] = 0
  /\ sent[Traced] = 2
  /\ quotaOnly[Traced]
  /\ last[Traced] = [threw |-> FALSE, status |-> 503, json |-> TRUE]
  /\ result[Traced] = UpstreamError(503, "B")

\* C12. What a call does is the same whether its store writes land or are
\* lost: of two copies that read the same index and are given the same
\* upstream responses, one with every write persisted and one with every
\* write lost, each attempt goes out with the same key and both return the
\* same result.
C12_WritesDoNotMatter ==
  /\ (pc[Traced] = "fetching" /\ pc[Twin] = "fetching" /\ sent[Twin] = sent[Traced])
       => req[Twin] = req[Traced]
  /\ (pc[Traced] = "writing" /\ pc[Twin] = "writing")
       => keyIndex[Twin] = keyIndex[Traced]
  /\ (pc[Traced] = "done" /\ pc[Twin] = "done" /\ result[Twin] # NoResult)
       => result[Twin] = result[Traced]

\* Both copies read 1, failed with the second key and succeeded with the
\* third; only the write of Traced reached the cell.
C12_Witness ==
  /\ apiKeys = <<"A", "B", "C">>
  /\ pc[Traced] = "done"
  /\ pc[Twin] = "done"
  /\ start[Traced] = 1
  /\ sent[Traced] = 2
  /\ kvWrites[Traced] = 1
  /\ ~kvFailed[Traced]
  /\ kv = "2"
  /\ result[Traced] = Payload("C")
  /\ result[Twin] = Payload("C")

\* C13. For every payload posted, with a data-URI header or without one,
\* the data sent upstream is the payload with the header removed:
\* "header,DATA" is sent as DATA, a payload without a header is sent as it
\* is.
C13_HeaderRemoved ==
  LET commas == {n \in 1 .. Len(imageBase64) : imageBase64[n] = ","}
      comma == CHOOSE n \in commas : TRUE
      data == IF commas = {} THEN imageBase64
              ELSE SubSeq(imageBase64, comma + 1, Len(imageBase64))
      wellFormed ==
        /\ Cardinality(commas) <= 1
        /\ \A n \in 1 .. Len(data) : data[n] = "Q"
        /\ commas # {} => \A n \in 1 .. comma - 1 : imageBase64[n] = "d"
  IN  (pureBase64.built /\ wellFormed) => pureBase64.data = Str(data)

\* C14. In the single-key function a 200 of the upstream is answered 200
\* with the text of the first part of the first candidate, leading and
\* trailing blanks removed; when that text is missing at any step, or empty
\* once the blanks are removed, the answer is still 200 and carries the
\* fixed fallback text.
C14_TextOrFallback ==
  LET cs == geminiData.candidates
      ps == cs.items[1].content.parts
      present ==
        /\ cs.defined /\ cs.items # <<>>
        /\ cs.items[1].content.defined
        /\ ps.defined /\ ps.items # <<>>
        /\ ps.items[1].text.defined
      t == ps.items[1].text.str
      inked == {n \in 1 .. Len(t) : t[n] # " "}
      lo == CHOOSE n \in inked : \A m \in inked : n <= m
      hi == CHOOSE n \in inked : \A m \in inked : m <= n
  IN  (geminiData.status = 200 /\ recognized # NoReply)
        => /\ recognized.statusCode = 200
           /\ recognized.text =
                IF present /\ inked # {} THEN SubSeq(t, lo, hi) ELSE Fallback

\* The text " a " of the first part of the first of two candidates comes
\* back as "a".
C14_Witness ==
  /\ geminiData =
       [status |-> 200,
        candidates |->
          List(<<Candidate(Content(List(<<Part(Str(<<" ", "a", " ">>)), OtherPart>>))),
                 OtherCandidate>>)]
  /\ recognized = [statusCode |-> 200, text |-> <<"a">>]

\* An answer with no candidates comes back as the fallback text.
C14_WitnessFallback ==
  /\ geminiData = [status |-> 200, candidates |-> List(<<>>)]
  /\ recognized = [statusCode |-> 200, text |-> Fallback]

\* C15. With the store starting empty or at a position of the pool, in
\* every state that any number of calls in any interleaving can reach, the
\* store is empty or holds a position of the pool, the index read from it
\* is a position of the pool, and so is every index a call picks its key
\* with.
C15_IndexInRange ==
  ~ConfigMissing =>
    /\ kv \in {Null} \cup {JSONstringify(n) : n \in 0 .. (totalKeys - 1)}
    /\ StoredIndex \in 0 .. (totalKeys - 1)
    /\ ReadIndex \in 0 .. (totalKeys - 1)
    /\ \A c \in Calls :
         /\ pc[c] \in {"fetching", "writing"} => keyIndex[c] \in 0 .. (totalKeys - 1)
         /\ pc[c] = "fetching" =>
              /\ req[c] = KeyAt(keyIndex[c])
              /\ req[c] # "undefined"

\* One call wrapped from the last position to the first and wrote it; a
\* second call read it there and is about to write the position after.
C15_Witness ==
  /\ apiKeys = <<"A", "B", "C">>
  /\ kv = "0"
  /\ pc[1] = "fetching"
  /\ start[1] = 2
  /\ keyIndex[1] = 0
  /\ req[1] = "A"
  /\ pc[2] = "writing"
  /\ start[2] = 0
  /\ keyIndex[2] = 1

\* C16. Within one call that read index s, attempt number j (from 0) goes
\* to position (s + j) mod N with the key at that position, so no position
\* is attempted twice; and when the call returns all-keys-exhausted, each
\* of the N positions was attempted exactly once.
C16_EachKeyOnce ==
  LET t == tried[Traced] IN
  /\ Len(t) = sent[Traced]
  /\ \A j \in 1 .. Len(t) : t[j] = (start[Traced] + (j - 1)) % totalKeys
  /\ \A j, k \in 1 .. Len(t) : t[j] = t[k] => j = k
  /\ pc[Traced] = "fetching" => req[Traced] = apiKeys[t[Len(t)] + 1]
  /\ (pc[Traced] = "done" /\ result[Traced] = AllKeysExhausted)
       => /\ Len(t) = totalKeys
          /\ {t[j] : j \in 1 .. Len(t)} = 0 .. (totalKeys - 1)

\* A call that read 1 went through positions 1, 2, 0 and gave up.
C16_Witness ==
  /\ apiKeys = <<"A", "B", "C">>
  /\ pc[Traced] = "done"
  /\ start[Traced] = 1
  /\ tried[Traced] = <<1, 2, 0>>
  /\ result[Traced] = AllKeysExhausted

\* C17. When at least one key is answered with a success whenever it is
\* tried and every other key only with a 429 or a failed fetch, a call
\* that got past its checks ends with the success payload of such a key,
\* whatever index it read, and never with all-keys-exhausted.
C17_Converges ==
  /\ [](result[Traced] # AllKeysExhausted)
  /\ Active(Traced) ~> (/\ pc[Traced] = "done"
                        /\ result[Traced].kind = "payload"
                        /\ result[Traced].key \in goodKeys)

\* The only good key is the first of three and the call read 1: it is
\* reached on the third and last attempt.
C17_Witness ==
  /\ apiKeys = <<"A", "B", "C">>
  /\ goodKeys = {"A"}
  /\ pc[Traced] = "done"
  /\ start[Traced] = 1
  /\ sent[Traced] = 3
  /\ tried[Traced] = <<1, 2, 0>>
  /\ result[Traced] = Payload("A")

\* C18. Under any interleaving of concurrent calls on one store, every
\* write leaves the stored index as it was or moves it to the position after
\* it, (stored + 1) mod N; it is never moved back.
C18_OnlyForward ==
  [][(~ConfigMissing /\ kv' # kv)
       => StoredIndex' = (StoredIndex + 1) % totalKeys]_vars

\* C18, amended. Under any interleaving, the store changes only by the
\* write of some call, and what that call writes is its own next position,
\* (the index it read + the number of attempts it has made) mod N,
\* whatever the store holds at that moment.
C18_WritesOwnNextPosition ==
  [][kv' # kv
       => \E c \in Calls :
            /\ pc[c] = "writing"
            /\ pc'[c] # "writing"
            /\ kv' = JSONstringify((start[c] + sent[c]) % totalKeys)]_vars

\* Two calls read 0. The first failed twice and wrote 1, then 2; the
\* second failed once and its write put the store back to 1.
C18_Witness ==
  /\ apiKeys = <<"A", "B", "C">>
  /\ kvReachable
  /\ kv = "1"
  /\ pc[1] = "fetching"
  /\ start[1] = 0
  /\ sent[1] = 3
  /\ keyIndex[1] = 2
  /\ pc[2] = "fetching"
  /\ start[2] = 0
  /\ sent[2] = 2
  /\ keyIndex[2] = 1

\* C19. A call reads the store once, before its first attempt, and never
\* again: under any interleaving with other calls, the key of each of its
\* attempts and its result follow from the index it read and the answers
\* to its own attempts, and it is over within N attempts even when another
\* call read the same index and runs into the same exhausted key.
C19_ReadOnce ==
  \A c \in Calls :
    /\ sent[c] <= totalKeys
    /\ kvReads[c] <= 1
    /\ pc[c] = "reading" => (kvReads[c] = 0 /\ sent[c] = 0)
    /\ pc[c] \in {"fetching", "writing"} =>
         /\ kvReads[c] = IF KvUnconfigured THEN 0 ELSE 1
         /\ sent[c] >= 1
    /\ pc[c] = "fetching" => req[c] = KeyAt((start[c] + sent[c] - 1) % totalKeys)
    /\ pc[c] = "writing" => keyIndex[c] = (start[c] + sent[c]) % totalKeys

C19_OwnReadOwnAnswers ==
  /\ []C19_ReadOnce
  /\ [][\A c \in Calls :
          /\ pc'[c] = "reading" => pc[c] \in {"idle", "done", "reading"}
          /\ (pc[c] = "fetching" /\ pc'[c] = "done")
               => /\ result'[c].kind \in {"payload", "upstreamError"}
                  /\ result'[c].key = KeyAt((start[c] + sent[c] - 1) % totalKeys)
          /\ (pc[c] = "writing" /\ pc'[c] = "done")
               => /\ result'[c] = AllKeysExhausted
                  /\ sent[c] = totalKeys
       ]_vars

\* Two calls read 0 and were both turned away with the first key; each has
\* moved on to the second key by itself.
C19_Witness ==
  /\ apiKeys = <<"A", "B", "C">>
  /\ kvReachable
  /\ kv = "1"
  /\ \A c \in {1, 2} :
       /\ pc[c] = "fetching"
       /\ start[c] = 0
       /\ kvReads[c] = 1
       /\ sent[c] = 2
       /\ req[c] = "B"

\* C20. A call that runs alone, with the store configured and answering
\* every request, and that ends in all-keys-exhausted has written to the
\* store exactly N times, and the store then holds the index the call read
\* at its start.
C20_FullCircle ==
  (/\ pc[Traced] = "done"
   /\ result[Traced] = AllKeysExhausted
   /\ ~KvUnconfigured
   /\ ~kvFailed[Traced])
    => /\ kvWrites[Traced] = totalKeys
       /\ kvReads[Traced] = 1
       /\ kv # Null
       /\ StoredIndex = start[Traced]

\* Two keys, the store at 1: the call tried the second key, then the
\* first, wrote 0 and then 1, and gave up.
C20_Witness ==
  /\ apiKeys = <<"A", "B">>
  /\ ~kvFailed[Traced]
  /\ pc[Traced] = "done"
  /\ result[Traced] = AllKeysExhausted
  /\ start[Traced] = 1
  /\ tried[Traced] = <<1, 0>>
  /\ kvWrites[Traced] = 2
  /\ kv = "1"

====
